---- MODULE Spec2Model ----
(***************************************************************************)
(* The transaction gateway of BAA_Blockchain_Assistant:                    *)
(*   backend/server.py    the MCP server: allow-lists, the two send tools  *)
(*                        and three read tools (one process per client)    *)
(*   backend/mcp_evm.py   the agent run with the HITL confirmation loop    *)
(*                        and the send_*_hitl wrappers                     *)
(* The chain is the environment: the sender's mined nonce, its pooled      *)
(* transactions and the balances are state; every RPC may fail, and the    *)
(* gas price the node reports is any price in range.                       *)
(***************************************************************************)
EXTENDS Integers, Sequences, FiniteSets, TLC

(* ------------------------------ bounds -------------------------------- *)
MaxCalls == 2
\* The largest precision a token contract answers for decimals().
MaxDecimals == 18
\* What the node's gas estimation answers for a token transfer.
EstimatedGas == 50000

(* ------------------------- program constants -------------------------- *)
NativeGas == 21000
FallbackGas == 200000

(* ----------------------------- universe ------------------------------- *)
\* Agent sessions: each is one execution of run_agent with its own MCP server.
Runs == {"r1", "r2"}

\* The gas prices the node may report.
GasPrices == {1, 2}

Accounts == {"alice", "bob"}

\* An address string is an account spelled in some letter case, or not an
\* address at all. "badcase" is a mixed-case spelling with a wrong checksum.
GoodSpellings == {"lower", "upper", "checksum"}
Spellings == GoodSpellings \cup {"badcase"}
Garbage == [acct |-> "none", sp |-> "garbage"]
NoAddr == [acct |-> "none", sp |-> "unset"]
AddrStrings == [acct : Accounts, sp : Spellings] \cup {Garbage}

Addr(a, s) == [acct |-> a, sp |-> s]

\* The token addresses an agent may name in send_erc20_hitl.
TokA == Addr("tokA", "checksum")
TokB == Addr("tokB", "lower")

ToolNames == {"send_eth", "send_erc20_token"}
ReadToolNames == {"get_eth_balance", "get_erc20_token_balance",
                  "get_network_gas_price"}

(* ------------------------ server.py: helpers -------------------------- *)
\* Web3.is_address: a hex address that is all lower, all upper, or carries a
\* valid checksum.
is_address(a) == a.sp \in GoodSpellings

\* Web3.to_checksum_address
to_checksum_address(a) == [acct |-> a.acct, sp |-> "checksum"]

\* Variant: every entry converted, the malformed ones included.
parse_address_list_keeping_all(env_value) ==
    { to_checksum_address(env_value[i]) : i \in 1..Len(env_value) }

\* parse_address_list: env is <<>> for an unset or empty value, otherwise the
\* comma-separated entries.
parse_address_list(env_value) ==
    IF env_value = <<>> THEN {}
    ELSE { to_checksum_address(env_value[i]) :
             i \in { j \in 1..Len(env_value) : is_address(env_value[j]) } }

(* --------------------- Python numbers: int and float ------------------- *)
\* A Python int of any size is the sequence of its base-Base digits, lowest
\* first, without a leading zero digit; zero is <<>>.
Base == 10000

RECURSIVE Big(_)
Big(n) == IF n = 0 THEN <<>> ELSE <<n % Base>> \o Big(n \div Base)

RECURSIVE TimesCarry(_, _, _)
TimesCarry(x, k, carry) ==
    IF x = <<>> THEN Big(carry)
    ELSE LET p == Head(x) * k + carry
         IN <<p % Base>> \o TimesCarry(Tail(x), k, p \div Base)

\* x * k for an int x and a small whole number k < Base.
Times(x, k) == IF k = 0 THEN <<>> ELSE TimesCarry(x, k, 0)

RECURSIVE Pow10(_)
Pow10(d) == IF d = 0 THEN Big(1) ELSE Times(Pow10(d - 1), 10)

RECURSIVE Plus1(_)
Plus1(x) ==
    IF x = <<>> THEN <<1>>
    ELSE IF Head(x) + 1 < Base THEN <<Head(x) + 1>> \o Tail(x)
    ELSE <<0>> \o Plus1(Tail(x))

RECURSIVE PlusCarry(_, _, _)
PlusCarry(x, y, carry) ==
    IF x = <<>> /\ y = <<>> THEN Big(carry)
    ELSE LET a == IF x = <<>> THEN 0 ELSE Head(x)
             b == IF y = <<>> THEN 0 ELSE Head(y)
             s == a + b + carry
         IN <<s % Base>> \o PlusCarry(IF x = <<>> THEN <<>> ELSE Tail(x),
                                      IF y = <<>> THEN <<>> ELSE Tail(y),
                                      s \div Base)

Plus(x, y) == PlusCarry(x, y, 0)

IsOdd(x) == x # <<>> /\ Head(x) % 2 = 1

RECURSIVE HalfFrom(_, _, _)
HalfFrom(x, i, rem) ==
    IF i = 0 THEN <<>>
    ELSE LET v == rem * Base + x[i]
         IN HalfFrom(x, i - 1, v % 2) \o <<v \div 2>>

\* x // 2
Half(x) ==
    LET h == HalfFrom(x, Len(x), 0)
    IN IF h # <<>> /\ h[Len(h)] = 0 THEN SubSeq(h, 1, Len(h) - 1) ELSE h

RECURSIVE LessFrom(_, _, _)
LessFrom(x, y, i) ==
    IF i = 0 THEN FALSE
    ELSE IF x[i] # y[i] THEN x[i] < y[i]
    ELSE LessFrom(x, y, i - 1)

\* x < y
Less(x, y) ==
    IF Len(x) # Len(y) THEN Len(x) < Len(y) ELSE LessFrom(x, y, Len(x))

\* x \div k and x % k for a small k: long division from the top digit.
RECURSIVE DivFrom(_, _, _, _)
DivFrom(x, i, rem, k) ==
    IF i = 0 THEN <<>>
    ELSE LET v == rem * Base + x[i]
             low == DivFrom(x, i - 1, v % k, k)
         IN IF i = Len(x) /\ v \div k = 0 THEN low ELSE low \o <<v \div k>>

RECURSIVE ModFrom(_, _, _, _)
ModFrom(x, i, rem, k) ==
    IF i = 0 THEN rem ELSE ModFrom(x, i - 1, (rem * Base + x[i]) % k, k)

\* 2^66 = 73786976294838206464: a whole number from here on still has more
\* than 53 bits after 13 of them (2^13 = 8192) are shifted out.
TwoTo66 == <<6464, 3820, 2948, 6976, 7378>>

\* 2^53 = 9007199254740992: a float (IEEE 754 double) holds 53 significant bits.
TwoTo53 == <<992, 5474, 1992, 9007>>

\* x * 2^k, 13 bits at a time while it can (2^13 = 8192).
RECURSIVE Doubled(_, _)
Doubled(x, k) ==
    IF k = 0 \/ x = <<>> THEN x
    ELSE IF k >= 13 THEN Doubled(Times(x, 8192), k - 13)
    ELSE Doubled(Times(x, 2), k - 1)

\* The float nearest to the whole number m * 2^k, ties to even; rnd is the
\* last bit shifted out of m and sticky tells whether an earlier one was set.
RECURSIVE Round53(_, _, _, _)
Round53(m, k, rnd, sticky) ==
    IF ~Less(m, TwoTo66)
    THEN Round53(DivFrom(m, Len(m), 0, 8192), k + 13, FALSE,
                 sticky \/ rnd \/ ModFrom(m, Len(m), 0, 8192) # 0)
    ELSE IF ~Less(m, TwoTo53)
    THEN Round53(Half(m), k + 1, IsOdd(m), sticky \/ rnd)
    ELSE Doubled(IF rnd /\ (sticky \/ IsOdd(m)) THEN Plus1(m) ELSE m, k)

\* float(n) for an int n, as the whole number the float is.
float(n) == Round53(n, 0, FALSE, FALSE)

\* The two floats that are not numbers, among the whole-number amounts: both
\* compare as Python compares them with 0 (`inf <= 0` and `nan <= 0` are False).
PosInf == 2147483647
NaN == 2147483646
NonFinite == {PosInf, NaN}

\* The product of two whole numbers.
RECURSIVE TimesBig(_, _)
TimesBig(x, y) ==
    IF y = <<>> THEN <<>>
    ELSE LET rest == TimesBig(x, Tail(y))
         IN Plus(Times(x, Head(y)),
                 IF rest = <<>> THEN <<>> ELSE <<0>> \o rest)

\* x \div 10^d, and whether the division left no remainder: 10^d is
\* Base^(d \div 4) * 10^(d % 4), and a division by Base drops a digit.
FloorDivPow10(x, d) ==
    LET n == IF d \div 4 < Len(x) THEN d \div 4 ELSE Len(x)
        high == SubSeq(x, n + 1, Len(x))
        k == CASE d % 4 = 0 -> 1 [] d % 4 = 1 -> 10 [] d % 4 = 2 -> 100
               [] d % 4 = 3 -> 1000
    IN [q |-> IF d \div 4 >= Len(x) THEN <<>> ELSE DivFrom(high, Len(high), 0, k),
        exact |-> /\ \A i \in 1..n : x[i] = 0
                  /\ d \div 4 < Len(x) \/ x = <<>>
                  /\ ModFrom(high, Len(high), 0, k) = 0]

\* x \div 2^k, 13 bits at a time while it can.
RECURSIVE Halved(_, _)
Halved(x, k) ==
    IF k = 0 \/ x = <<>> THEN x
    ELSE IF k >= 13 THEN Halved(DivFrom(x, Len(x), 0, 8192), k - 13)
    ELSE Halved(Half(x), k - 1)

\* A float that need not be whole is m * 2^e for a whole m of at most 53
\* significant bits.
Whole(amount) == [m |-> Big(amount), e |-> 0]

\* 2^40 = 1099511627776: a quotient below it stays below 2^53 when scaled
\* by 2^13.
TwoTo40 == <<7776, 5116, 1099>>

\* int / int, Python's true division, for the divisor 10^d: the float
\* nearest to the quotient. n is x * 2^k; the quotient of n by 10^d is
\* rounded once it has more than 53 bits.
RECURSIVE TrueDivPow10(_, _, _)
TrueDivPow10(n, d, k) ==
    LET r == FloorDivPow10(n, d)
    IN IF n = <<>> THEN [m |-> <<>>, e |-> 0]
       ELSE IF ~Less(r.q, TwoTo53)
       THEN [m |-> Round53(r.q, 0, FALSE, ~r.exact), e |-> 0 - k]
       ELSE IF Less(r.q, TwoTo40)
       THEN TrueDivPow10(Times(n, 8192), d, k + 13)
       ELSE TrueDivPow10(Times(n, 2), d, k + 1)

\* `balance_smallest_unit / (10**token_decimals)` (server.py:295).
balance_normal(balance_smallest_unit, decimals) ==
    TrueDivPow10(balance_smallest_unit, decimals, 0)

\* `amount * (10**token_decimals)` for a float amount: the int is converted
\* to float and the product is rounded to a float.
float_times_int(amount, n) ==
    [m |-> float(TimesBig(amount.m, float(n))), e |-> amount.e]

\* int(x) for a finite float x that is not negative: the fraction is dropped.
int(x) == IF x.e >= 0 THEN Doubled(x.m, x.e) ELSE Halved(x.m, 0 - x.e)

\* `int(amount * (10**token_decimals))` (server.py:386) for a float amount.
smallest_unit_of(amount, decimals) ==
    int(float_times_int(amount, Pow10(decimals)))

\* The same for a whole-number amount; defined for finite amounts, int()
\* raises for the others.
amount_in_smallest_unit(amount, decimals) ==
    smallest_unit_of(Whole(amount), decimals)

\* w3.to_wei(amount_eth, 'ether') (server.py:241): decimal arithmetic, exact;
\* raises for an amount that is not finite.
to_wei(amount_eth) == Times(Pow10(18), amount_eth)

\* The amount of a transaction that is not built.
NoUnits == <<-1>>

\* The float of a call that computed none.
NoFloat == [m |-> NoUnits, e |-> 0]

VARIABLES
    env,                     \* the environment values server.py reads
    txcount,                 \* mined transactions of the sender ("latest" nonce)
    mempool,                 \* accepted, unmined transactions of the sender
    token_decimals,          \* the context's token_decimals (Web3Context)
    balance,                 \* the chain's balances, by asset and account
    chain_id,                \* the identifier of the chain the endpoint serves
    runs,                    \* run_agent executions, by session
    calls                    \* tool calls requested by the agents, in order

vars == <<env, token_decimals, txcount, mempool, balance, chain_id, runs, calls>>

\* What a server process holds once web3_lifespan has yielded.
config == <<env, token_decimals>>

\* The module-level configuration (server.py:27-38); an unset address is
\* NoAddr and an unset string is "".
NETWORK_RPC_URL == env.NETWORK_RPC_URL
NETWORK_ID == env.NETWORK_ID

\* The key loses a leading '0x' (server.py:29-32).
PRIVATE_KEY ==
    CASE env.PRIVATE_KEY = "0x" -> ""
      [] env.PRIVATE_KEY = "0xkey" -> "key"
      [] OTHER -> env.PRIVATE_KEY

TOKEN_CONTRACT_ADDRESS == env.ERC20_TOKEN_ADDRESS
ETH_WHITELIST == parse_address_list(env.ETH_WHITELIST)
ERC20_WHITELIST == parse_address_list(env.ERC20_WHITELIST)
chain == <<txcount, mempool, balance, chain_id>>

\* token_decimals of a context whose decimals() call failed (server.py:121).
NoDecimals == -1

\* Variant: the context's value used as it was read.
token_decimals_as_read(decimals) == IF decimals = NoDecimals THEN 0 ELSE decimals

\* `web3_ctx.token_decimals or 18` (server.py:294, 362)
token_decimals_or_18(decimals) ==
    IF decimals = NoDecimals \/ decimals = 0 THEN 18 ELSE decimals

\* The assets the chain keeps balances of: the native one and the token.
Assets == {"eth", "tokA"}

CallIds == 1..Len(calls)

NoResult == [kind |-> "none", addr |-> NoAddr]
Result(k) == [kind |-> k, addr |-> NoAddr]
ResultNaming(k, a) == [kind |-> k, addr |-> a]

\* Variant: error results that quote the key beside the exception.
ResultParts_quoting_key(res) == {"exception", "PRIVATE_KEY"}

\* The values a result's text is formatted from (the return statements of
\* server.py:186-468, and the text of an exception that leaves a tool). A
\* token balance ends with a remark when the wallet is the sender's
\* (server.py:300-301).
ResultParts(res) ==
    CASE res.kind \in {"InvalidAddress", "NotWhitelisted"} -> {"address"}
      [] res.kind = "Submitted" -> {"tx_hash"}
      [] res.kind = "Balance" -> {"address", "balance"}
      [] res.kind = "TokenBalance" -> {"address", "balance", "sender_address"}
      [] res.kind = "GasPrice" -> {"gas_price"}
      [] res.kind \in {"ErrorGettingBalance", "ErrorGettingTokenBalance"} ->
           {"address", "exception"}
      [] res.kind \in {"ErrorSendingEth", "UnexpectedError", "GasEstimationFailed",
                       "ErrorGettingGasPrice", "Raised", "ToolFailed"} ->
           {"exception"}
      [] OTHER -> {}

\* The values computed from the key: the sender address is the account's
\* (server.py:117-118), the account signs the transaction (236, 252-254,
\* 383, 431-436), and the hash is the hash of what it signed. Exceptions
\* carry the messages of the node and of the conversions.
DerivedFromKey ==
    {"PRIVATE_KEY", "sender_address", "sender_account", "signed_tx", "tx_hash"}

NoTx == [nonce |-> -1, gasPrice |-> 0, gas |-> 0, to |-> NoAddr,
         asset |-> "none", amount |-> 0, units |-> NoUnits]

\* A tool call as the agent requested it.
NewCall(r, route, tool, token_address, to, amount, conf, pc) ==
    [run |-> r, route |-> route, tool |-> tool, token_address |-> token_address,
     to |-> to, amount |-> amount, conf |-> conf, answer |-> "none",
     typed |-> <<>>, decisions |-> 0, pc |-> pc,
     connected |-> "unprobed", units |-> NoUnits,
     nonce |-> -1, gasPrice |-> 0, estimate |-> "none", gas |-> 0,
     sent |-> "no", tx |-> NoTx, reused |-> FALSE,
     queries |-> 0, height |-> -1, value |-> NoUnits, scale |-> 0,
     human |-> NoFloat, rpc_failed |-> FALSE, result |-> NoResult]

(* ------------------- server.py: tool input checks --------------------- *)
\* After a successful web3_lifespan the sender address is set.
sender_address == "sender"

\* Variant: the amount check written with < instead of <=.
AmountNotPositive_strict(amount) == amount < 0

\* `amount <= 0` (server.py:226, 373)
AmountNotPositive(amount) == amount <= 0

\* Variant: the allow-list check left out.
NotWhitelisted_skipped(to_address, whitelist) == FALSE

\* Variant: the allow-list lookup made with the address as it was typed.
NotWhitelisted_raw(to_address, whitelist) == to_address \notin whitelist

\* `checksum_to_address not in WHITELIST` (server.py:231-233, 378-380)
NotWhitelisted(to_address, whitelist) ==
    to_checksum_address(to_address) \notin whitelist

\* Variant: the allow-list lookup placed before the address-format check.
send_eth_checks_listfirst(live, to_address, amount_eth) ==
    IF ~live THEN Result("NotConnected")
    ELSE IF sender_address = "" THEN Result("NoSender")
    ELSE IF NotWhitelisted(to_address, ETH_WHITELIST)
         THEN ResultNaming("NotWhitelisted", to_address)
    ELSE IF ~is_address(to_address) THEN ResultNaming("InvalidAddress", to_address)
    ELSE IF AmountNotPositive(amount_eth) THEN Result("AmountNotPositive")
    ELSE IF PRIVATE_KEY = "" THEN Result("NoPrivateKey")
    ELSE Result("ok")

\* send_eth up to the allow-list check; live is w3.is_connected().
send_eth_checks(live, to_address, amount_eth) ==
    IF ~live THEN Result("NotConnected")
    ELSE IF sender_address = "" THEN Result("NoSender")
    ELSE IF ~is_address(to_address) THEN ResultNaming("InvalidAddress", to_address)
    ELSE IF AmountNotPositive(amount_eth) THEN Result("AmountNotPositive")
    ELSE IF PRIVATE_KEY = "" THEN Result("NoPrivateKey")
    ELSE IF NotWhitelisted(to_address, ETH_WHITELIST)
         THEN ResultNaming("NotWhitelisted", to_address)
    ELSE Result("ok")

\* Variant: the token tool looking the destination up in the native list.
send_erc20_token_checks_ethlist(live, token_contract, to_address, amount) ==
    IF ~live THEN Result("NotConnected")
    ELSE IF sender_address = "" THEN Result("NoSender")
    ELSE IF token_contract = NoAddr THEN Result("NoTokenContract")
    ELSE IF ~is_address(to_address) THEN ResultNaming("InvalidAddress", to_address)
    ELSE IF AmountNotPositive(amount) THEN Result("AmountNotPositive")
    ELSE IF PRIVATE_KEY = "" THEN Result("NoPrivateKey")
    ELSE IF NotWhitelisted(to_address, ETH_WHITELIST)
         THEN ResultNaming("NotWhitelisted", to_address)
    ELSE Result("ok")

\* send_erc20_token up to the allow-list check; token_contract is the context's
\* contract handle (NoAddr when none was loaded).
send_erc20_token_checks(live, token_contract, to_address, amount) ==
    IF ~live THEN Result("NotConnected")
    ELSE IF sender_address = "" THEN Result("NoSender")
    ELSE IF token_contract = NoAddr THEN Result("NoTokenContract")
    ELSE IF ~is_address(to_address) THEN ResultNaming("InvalidAddress", to_address)
    ELSE IF AmountNotPositive(amount) THEN Result("AmountNotPositive")
    ELSE IF PRIVATE_KEY = "" THEN Result("NoPrivateKey")
    ELSE IF NotWhitelisted(to_address, ERC20_WHITELIST)
         THEN ResultNaming("NotWhitelisted", to_address)
    ELSE Result("ok")

\* The contract handle web3_lifespan loads (server.py:124-131).
token_contract_instance ==
    IF TOKEN_CONTRACT_ADDRESS = NoAddr THEN NoAddr
    ELSE to_checksum_address(TOKEN_CONTRACT_ADDRESS)

(* --------------------------- call bookkeeping ------------------------- *)
ExecPcs == {"spawn", "called", "authorized", "have_nonce", "priced", "built",
            "querying", "querying_sender"}

CallsOf(r) == { c \in CallIds : calls[c].run = r }
Executing(r) == { c \in CallsOf(r) : calls[c].pc \in ExecPcs }
Pending(r) == { c \in CallsOf(r) : calls[c].pc = "pending" }

\* Within one session tool calls run one after the other.
Active(c) ==
    /\ c \in CallIds
    /\ calls[c].pc \in ExecPcs
    /\ \A d \in Executing(calls[c].run) : c <= d

Finish(c, res) ==
    calls' = [calls EXCEPT ![c].pc = "done", ![c].result = res]

Raise(c, res) ==
    calls' = [calls EXCEPT ![c].pc = "done", ![c].result = res,
                           ![c].rpc_failed = TRUE]

\* Variant: the except clauses report a submission as well.
SendFailed_as_submitted(c) == Result("Submitted")

\* The except clauses around the guarded block (server.py:259-262, 454-468).
SendFailed(c) ==
    IF calls[c].tool = "send_eth" THEN Result("ErrorSendingEth")
    ELSE Result("UnexpectedError")

\* Variant: tools that store the fallback precision in the context.
ToolsKeepContext_storing_fallback ==
    /\ env' = env
    /\ token_decimals' = token_decimals_or_18(token_decimals)

\* The tools read web3_ctx and the allow-lists (server.py:181-183, 211-214,
\* 231, 280-282, 324-325, 353-356, 378) and assign to none of them.
ToolsKeepContext == UNCHANGED config

(* ------------------ server.py: the send tools, by RPC ----------------- *)
\* The call with the outcome of its w3.is_connected() probe noted.
Probed(call, live) ==
    [call EXCEPT !.connected = IF live THEN "live" ELSE "down"]

\* Lines 216-236 / 358-389: context and input checks, allow-list check, and
\* for a token the conversion of the amount, which is outside the try block.
ToolChecks(c) ==
    /\ Active(c)
    /\ calls[c].pc = "called"
    /\ calls[c].tool \in ToolNames
    /\ \E live \in BOOLEAN :
         LET call == Probed(calls[c], live)
             res == IF call.tool = "send_eth"
                    THEN send_eth_checks(live, call.to, call.amount)
                    ELSE send_erc20_token_checks(live, token_contract_instance,
                                                 call.to, call.amount)
         IN IF res.kind # "ok"
            THEN calls' = [calls EXCEPT ![c] = [call EXCEPT !.pc = "done",
                                                  !.result = res,
                                                  !.rpc_failed = ~live]]
            ELSE IF call.tool = "send_eth"
            THEN calls' = [calls EXCEPT ![c] = [call EXCEPT !.pc = "authorized"]]
            ELSE IF call.amount \in NonFinite
            THEN calls' = [calls EXCEPT ![c] = [call EXCEPT !.pc = "done",
                                                  !.result = Result("Raised")]]
            ELSE calls' = [calls EXCEPT ![c] =
                             [call EXCEPT !.pc = "authorized",
                                !.units = amount_in_smallest_unit(call.amount,
                                            token_decimals_or_18(token_decimals))]]
    /\ ToolsKeepContext
    /\ UNCHANGED <<chain, runs>>

\* Variant: the nonce may be read before the input checks.
GetTransactionCount_before_checks(c) ==
    /\ Active(c)
    /\ calls[c].pc \in {"called", "authorized"}
    /\ calls[c].tool \in ToolNames
    /\ calls' = [calls EXCEPT ![c].pc = "have_nonce", ![c].nonce = txcount]
    /\ ToolsKeepContext
    /\ UNCHANGED <<chain, runs>>

\* w3.eth.get_transaction_count(sender_address) (server.py:239, 393)
GetTransactionCount(c) ==
    /\ Active(c)
    /\ calls[c].pc = "authorized"
    /\ \E reachable \in BOOLEAN :
         IF reachable
         THEN calls' = [calls EXCEPT ![c].pc = "have_nonce", ![c].nonce = txcount]
         ELSE Raise(c, SendFailed(c))
    /\ ToolsKeepContext
    /\ UNCHANGED <<chain, runs>>

\* w3.eth.gas_price (server.py:240, 397), and for send_eth the conversion of
\* the amount and the transaction fields (241-250); to_wei raises inside the
\* try block for an amount that is not finite.
GetGasPrice(c, Prices) ==
    /\ Active(c)
    /\ calls[c].pc = "have_nonce"
    /\ \/ \E gas_price \in Prices :
            IF calls[c].tool = "send_erc20_token"
            THEN calls' = [calls EXCEPT ![c].pc = "priced",
                                        ![c].gasPrice = gas_price]
            ELSE IF calls[c].amount \in NonFinite
            THEN Finish(c, SendFailed(c))
            ELSE calls' = [calls EXCEPT ![c].pc = "priced",
                                        ![c].gasPrice = gas_price,
                                        ![c].gas = NativeGas,
                                        ![c].units = to_wei(calls[c].amount)]
       \/ Raise(c, SendFailed(c))
    /\ ToolsKeepContext
    /\ UNCHANGED <<chain, runs>>

\* estimate_gas and its two except clauses (server.py:406-420)
EstimateOutcomes == {"estimated", "logic_error", "other_error"}

\* Variant: a contract-logic failure handled like any other failure.
Estimated_logic_falls_back(call, outcome) ==
    IF outcome = "estimated"
    THEN [call EXCEPT !.pc = "built", !.estimate = outcome,
                      !.gas = (EstimatedGas * 12) \div 10]
    ELSE [call EXCEPT !.pc = "built", !.estimate = outcome, !.gas = FallbackGas]

\* Variant: every failure of the estimation ends the call.
Estimated_always_aborts(call, outcome) ==
    IF outcome = "estimated"
    THEN [call EXCEPT !.pc = "built", !.estimate = outcome,
                      !.gas = (EstimatedGas * 12) \div 10]
    ELSE [call EXCEPT !.pc = "done", !.estimate = outcome,
                      !.result = Result("GasEstimationFailed")]

\* The call after the estimation: `int(estimated_gas * 1.2)` (412), the error
\* result for ContractLogicError (414-417), the fallback limit for any other
\* exception (418-419).
Estimated(call, outcome) ==
    CASE outcome = "estimated" ->
           [call EXCEPT !.pc = "built", !.estimate = outcome,
                        !.gas = (EstimatedGas * 12) \div 10]
      [] outcome = "logic_error" ->
           [call EXCEPT !.pc = "done", !.estimate = outcome,
                        !.result = Result("GasEstimationFailed")]
      [] outcome = "other_error" ->
           [call EXCEPT !.pc = "built", !.estimate = outcome, !.gas = FallbackGas]

EstimateGas(c) ==
    /\ Active(c)
    /\ calls[c].pc = "priced"
    /\ calls[c].tool = "send_erc20_token"
    /\ \E outcome \in EstimateOutcomes :
         calls' = [calls EXCEPT ![c] = Estimated(calls[c], outcome)]
    /\ ToolsKeepContext
    /\ UNCHANGED <<chain, runs>>

\* Variant: every transaction given the token fallback limit.
BuildTx_with_fallback_limit(c) ==
    [nonce |-> calls[c].nonce, gasPrice |-> calls[c].gasPrice, gas |-> FallbackGas,
     to |-> to_checksum_address(calls[c].to),
     asset |-> IF calls[c].tool = "send_eth" THEN "eth"
               ELSE token_contract_instance.acct,
     amount |-> calls[c].amount, units |-> calls[c].units]

\* The transaction the tool signs (server.py:243-250, 398-429).
BuildTx(c) ==
    [nonce |-> calls[c].nonce, gasPrice |-> calls[c].gasPrice, gas |-> calls[c].gas,
     to |-> to_checksum_address(calls[c].to),
     asset |-> IF calls[c].tool = "send_eth" THEN "eth"
               ELSE token_contract_instance.acct,
     amount |-> calls[c].amount, units |-> calls[c].units]

\* When the node can take a transaction sent to it: one below the mined nonce
\* is refused; one with the nonce of a pooled transaction replaces it only at
\* a higher gas price.
NodeTakes(tx) ==
    /\ tx.nonce >= txcount
    /\ \A p \in mempool : p.nonce = tx.nonce => tx.gasPrice > p.gasPrice

\* sign_transaction and send_raw_transaction (server.py:252-257, 432-452).
\* The request may fail before it reaches the node; the node may take the
\* transaction or refuse it; and the answer of a node that took it may be
\* lost (a timeout), which raises in the tool like any other failure.
SendRawTransaction(c) ==
    /\ Active(c)
    /\ \/ calls[c].pc = "priced" /\ calls[c].tool = "send_eth"
       \/ calls[c].pc = "built"
    /\ LET tx == BuildTx(c) IN
         \/ /\ NodeTakes(tx)
            /\ mempool' = { p \in mempool : p.nonce # tx.nonce } \cup {tx}
            /\ calls' = [calls EXCEPT ![c].pc = "done", ![c].sent = "accepted",
                                      ![c].tx = tx,
                                      ![c].result = Result("Submitted")]
         \/ /\ mempool' = mempool
            /\ calls' = [calls EXCEPT ![c].pc = "done", ![c].sent = "refused",
                                      ![c].tx = tx,
                                      ![c].result = SendFailed(c)]
         \/ /\ mempool' = mempool
            /\ Raise(c, SendFailed(c))
         \/ /\ NodeTakes(tx)
            /\ mempool' = { p \in mempool : p.nonce # tx.nonce } \cup {tx}
            /\ calls' = [calls EXCEPT ![c].pc = "done", ![c].sent = "accepted",
                                      ![c].tx = tx, ![c].rpc_failed = TRUE,
                                      ![c].result = SendFailed(c)]
    /\ ToolsKeepContext
    /\ UNCHANGED <<txcount, balance, chain_id, runs>>

(* --------------------- server.py: the read tools ---------------------- *)
\* Variant: get_eth_balance without the address-format test.
get_eth_balance_checks_unvalidated(live, address) ==
    IF ~live THEN Result("NotConnected") ELSE Result("ok")

\* get_eth_balance up to the try block (server.py:183-188)
get_eth_balance_checks(live, address) ==
    IF ~live THEN Result("NotConnected")
    ELSE IF ~is_address(address) THEN ResultNaming("InvalidAddress", address)
    ELSE Result("ok")

\* get_erc20_token_balance up to the try block (server.py:279-289)
get_erc20_token_balance_checks(live, token_contract, wallet_address) ==
    IF ~live THEN Result("NotConnected")
    ELSE IF token_contract = NoAddr THEN Result("NoTokenContract")
    ELSE IF ~is_address(wallet_address)
         THEN ResultNaming("InvalidAddress", wallet_address)
    ELSE Result("ok")

\* Variant: get_network_gas_price without the connection test.
get_network_gas_price_checks_unguarded(live) == Result("ok")

\* get_network_gas_price up to the try block (server.py:326-329)
get_network_gas_price_checks(live) ==
    IF ~live THEN Result("NotConnected") ELSE Result("ok")

ReadChecks(c) ==
    /\ Active(c)
    /\ calls[c].pc = "called"
    /\ calls[c].tool \in ReadToolNames
    /\ \E live \in BOOLEAN :
         LET call == Probed(calls[c], live)
             res == CASE call.tool = "get_eth_balance" ->
                           get_eth_balance_checks(live, call.to)
                      [] call.tool = "get_erc20_token_balance" ->
                           get_erc20_token_balance_checks(
                               live, token_contract_instance, call.to)
                      [] call.tool = "get_network_gas_price" ->
                           get_network_gas_price_checks(live)
         IN calls' = [calls EXCEPT ![c] =
                        IF res.kind = "ok" THEN [call EXCEPT !.pc = "querying"]
                        ELSE [call EXCEPT !.pc = "done", !.result = res,
                                          !.rpc_failed = ~live]]
    /\ ToolsKeepContext
    /\ UNCHANGED <<chain, runs>>

\* The except clause of a read tool (server.py:197-200, 309-312, 337-340).
ReadFailed(call) ==
    CASE call.tool = "get_eth_balance" ->
           ResultNaming("ErrorGettingBalance", call.to)
      [] call.tool = "get_erc20_token_balance" ->
           ResultNaming("ErrorGettingTokenBalance", call.to)
      [] call.tool = "get_network_gas_price" -> Result("ErrorGettingGasPrice")

\* Variant: a read that also asks the node for the sender's nonce.
Answered_reading_nonce(call, answer, decimals) ==
    [call EXCEPT !.queries = @ + 1, !.height = txcount, !.value = answer,
                 !.scale = decimals, !.nonce = txcount]

\* A read call after the node answered its query: the tool divides the
\* answer by 10^decimals for its result (from_wei at server.py:193, 333;
\* `/ (10**token_decimals)` at 295).
Answered(call, answer, decimals) ==
    [call EXCEPT !.queries = @ + 1, !.height = txcount, !.value = answer,
                 !.scale = decimals]

\* w3.eth.get_balance (server.py:191-196) and the first balanceOf
\* (292-298). The sender is none of the accounts asked about, so
\* get_erc20_token_balance goes on to the sender's balance (303-305).
QueryBalance(c) ==
    /\ Active(c)
    /\ calls[c].pc = "querying"
    /\ calls[c].tool \in {"get_eth_balance", "get_erc20_token_balance"}
    /\ LET call == calls[c]
           checksum_address == to_checksum_address(call.to)
       IN \/ /\ call.tool = "get_eth_balance"
             /\ calls' = [calls EXCEPT ![c] =
                   [Answered(call, balance["eth"][checksum_address.acct], 18)
                      EXCEPT !.pc = "done",
                             !.result = ResultNaming("Balance", checksum_address)]]
          \/ /\ call.tool = "get_erc20_token_balance"
             /\ calls' = [calls EXCEPT ![c] =
                   [Answered(call,
                             balance[token_contract_instance.acct][checksum_address.acct],
                             token_decimals_or_18(token_decimals))
                      EXCEPT !.pc = "querying_sender",
                             !.human = balance_normal(
                                 balance[token_contract_instance.acct][checksum_address.acct],
                                 token_decimals_or_18(token_decimals))]]
          \/ calls' = [calls EXCEPT ![c] =
                         [call EXCEPT !.pc = "done", !.queries = @ + 1,
                                      !.rpc_failed = TRUE,
                                      !.result = ReadFailed(call)]]
    /\ ToolsKeepContext
    /\ UNCHANGED <<chain, runs>>

\* The second balanceOf of get_erc20_token_balance, for the sender
\* (server.py:303-308).
QuerySenderBalance(c) ==
    /\ Active(c)
    /\ calls[c].pc = "querying_sender"
    /\ LET call == calls[c]
       IN \/ calls' = [calls EXCEPT ![c] =
                         [call EXCEPT !.pc = "done", !.queries = @ + 1,
                            !.result = ResultNaming("TokenBalance",
                                         to_checksum_address(call.to))]]
          \/ calls' = [calls EXCEPT ![c] =
                         [call EXCEPT !.pc = "done", !.queries = @ + 1,
                                      !.rpc_failed = TRUE,
                                      !.result = ReadFailed(call)]]
    /\ ToolsKeepContext
    /\ UNCHANGED <<chain, runs>>

\* w3.eth.gas_price in get_network_gas_price (server.py:331-336)
QueryGasPrice(c, Prices) ==
    /\ Active(c)
    /\ calls[c].pc = "querying"
    /\ calls[c].tool = "get_network_gas_price"
    /\ LET call == calls[c]
       IN \/ \E gas_price \in Prices :
               calls' = [calls EXCEPT ![c] =
                           [Answered(call, Big(gas_price), 9)
                              EXCEPT !.pc = "done", !.result = Result("GasPrice")]]
          \/ calls' = [calls EXCEPT ![c] =
                         [call EXCEPT !.pc = "done", !.queries = @ + 1,
                                      !.rpc_failed = TRUE,
                                      !.result = ReadFailed(call)]]
    /\ ToolsKeepContext
    /\ UNCHANGED <<chain, runs>>

(* ------------------------------ the chain ----------------------------- *)
\* A block includes the pooled transaction that carries the sender's next nonce.
Mine ==
    /\ \E p \in mempool :
         /\ p.nonce = txcount
         /\ mempool' = mempool \ {p}
         /\ balance' = [balance EXCEPT ![p.asset][p.to.acct] = Plus(@, p.units)]
    /\ txcount' = txcount + 1
    /\ UNCHANGED <<config, chain_id, runs, calls>>

(* ---------------- mcp_evm.py: the agent run and its tools ------------- *)
\* The three values a server cannot start without (server.py:91-99, 493).
essential_env == NETWORK_RPC_URL # "" /\ NETWORK_ID # "" /\ PRIVATE_KEY # ""

\* str(n) and int(s) for the chain identifiers of the configurations.
str(n) == CASE n = 1 -> "1" [] n = 2 -> "2"
int_of_str(s) == CASE s = "1" -> 1 [] s = "2" -> 2

\* Python's `a != b` for an int or a str: values of the two types differ
\* whatever they hold.
python_ne(a, b) == a.type # b.type \/ a.text # b.text

\* `w3_instance.eth.chain_id != NETWORK_ID` (server.py:113): the chain's
\* identifier is an int, NETWORK_ID the str that os.getenv returned.
chain_id_mismatch ==
    python_ne([type |-> "int", text |-> str(chain_id)],
              [type |-> "str", text |-> NETWORK_ID])

\* Variant: a lifespan that only needs the endpoint to answer.
web3_lifespan_tolerant(reachable) == reachable

\* Variant: a lifespan that yields without probing the connection.
web3_lifespan_unprobed(reachable) ==
    /\ essential_env
    /\ TOKEN_CONTRACT_ADDRESS # NoAddr => is_address(TOKEN_CONTRACT_ADDRESS)

\* web3_lifespan as a starting server process runs it, after the test of
\* __main__ (server.py:493): it raises when an essential value is missing
\* (91-99), when the endpoint is not reachable (109-110) or when the token
\* address is set and malformed (124-126), and the client then fails;
\* otherwise it yields the context. A failed decimals() call is caught
\* (133-137).
web3_lifespan(reachable) ==
    /\ essential_env
    /\ reachable
    /\ TOKEN_CONTRACT_ADDRESS # NoAddr => is_address(TOKEN_CONTRACT_ADDRESS)

\* What a starting server process has printed about the chain identifier
\* (server.py:112-114) when its lifespan reached the comparison.
Warned(reachable) == essential_env /\ reachable /\ chain_id_mismatch

\* run_agent up to agent.arun (mcp_evm.py:241-265): the MCP server of the
\* session is started; a failure ends the run in the except clause (289-290).
StartRun(r, limit) ==
    /\ runs[r].pc = "idle"
    /\ Len(calls) < limit
    /\ \E reachable \in BOOLEAN :
         runs' = [runs EXCEPT ![r] =
                    [pc |-> IF web3_lifespan(reachable) THEN "running" ELSE "idle",
                     served |-> FALSE,
                     startup |-> IF web3_lifespan(reachable) THEN "yielded"
                                 ELSE "raised",
                     reachable |-> reachable,
                     warned |-> Warned(reachable),
                     text |-> <<>>, shown |-> <<>>]]
    /\ UNCHANGED <<config, chain, calls>>

\* The agent may ask for a new tool call once its earlier ones have answered.
AgentMayCall(r, limit) ==
    /\ runs[r].pc = "running"
    /\ Executing(r) = {}
    /\ Len(calls) < limit

\* A call made to the server process of session r: reused tells whether that
\* process has served a call before.
ServedBy(r, call) == [call EXCEPT !.reused = runs[r].served]

\* The agent calls send_eth or send_erc20_token of the MCP server, which
\* MCPTools hands it beside the wrappers (mcp_evm.py:244-247, mcp_evm_ui.py:44-48).
AgentCallsServerTool(r, limit, Tos, Amounts) ==
    /\ AgentMayCall(r, limit)
    /\ \E tool \in ToolNames, to_address \in Tos, amount \in Amounts :
         calls' = Append(calls, ServedBy(r, NewCall(r, "direct", tool, NoAddr,
                                          to_address, amount, "none", "called")))
    /\ runs' = [runs EXCEPT ![r].served = TRUE]
    /\ UNCHANGED <<config, chain>>

\* The agent calls one of the three read tools of the MCP server.
AgentCallsReadTool(r, limit, Addresses) ==
    /\ AgentMayCall(r, limit)
    /\ \E tool \in ReadToolNames :
         \E address \in IF tool = "get_network_gas_price" THEN {NoAddr}
                         ELSE Addresses :
           calls' = Append(calls, ServedBy(r, NewCall(r, "direct", tool, NoAddr,
                                             address, 0, "none", "called")))
    /\ runs' = [runs EXCEPT ![r].served = TRUE]
    /\ UNCHANGED <<config, chain>>

\* The agent calls a wrapper declared with requires_confirmation=True
\* (mcp_evm.py:83-97): the call is parked until it is decided.
AgentCallsHitl(r, limit, Tos, Amounts) ==
    /\ AgentMayCall(r, limit)
    /\ \E tool \in ToolNames, to_address \in Tos, amount \in Amounts :
         \E token_address \in IF tool = "send_eth" THEN {NoAddr} ELSE {TokA, TokB} :
           calls' = Append(calls, NewCall(r, "hitl", tool, token_address, to_address,
                                          amount, "undecided", "pending"))
    /\ UNCHANGED <<config, chain, runs>>

\* agent.arun / agent.acontinue_run returns (mcp_evm.py:265, 279): paused when
\* tool calls await confirmation; otherwise the output is shown (281-287) and
\* the session is back at its prompt.
RunReturns(r) ==
    /\ runs[r].pc = "running"
    /\ Executing(r) = {}
    /\ runs' = [runs EXCEPT ![r].pc = IF Pending(r) # {} THEN "paused" ELSE "idle"]
    /\ UNCHANGED <<config, chain, calls>>

(* ------------------- mcp_evm.py: the displayed output ----------------- *)
\* A text is the sequence of its characters; run_agent displays only a text
\* that is not empty (mcp_evm.py:282-283).
NoText == <<>>

\* The length of the hexadecimal run in _TX_HASH_RE (mcp_evm.py:171).
HashLen == 64

\* [A-Fa-f0-9]
HexDigits == {"0", "1", "2", "3", "4", "5", "6", "7", "8", "9",
              "a", "b", "c", "d", "e", "f", "A", "B", "C", "D", "E", "F"}

\* The characters of the texts that \w does not match; every other one is a
\* letter or a digit.
NonWordChars == {" ", "\n", "-", ":", ".", ","}

WordAt(text, i) == i \in 1..Len(text) /\ text[i] \notin NonWordChars

\* \b in front of position i: exactly one of the characters on its two sides
\* is a word character (beyond either end of the text there is none).
Boundary(text, i) == WordAt(text, i - 1) # WordAt(text, i)

\* [A-Fa-f0-9]{64} from position p on
HexRun(text, p) ==
    /\ p + HashLen - 1 <= Len(text)
    /\ \A i \in p..(p + HashLen - 1) : text[i] \in HexDigits

\* The length of the match of _TX_HASH_RE that starts at position p, 0 when
\* there is none: the alternative with the 0x prefix is tried first.
MatchLen(text, p) ==
    IF ~Boundary(text, p) THEN 0
    ELSE IF /\ p + 1 <= Len(text)
            /\ text[p] = "0"
            /\ text[p + 1] = "x"
            /\ HexRun(text, p + 2)
            /\ Boundary(text, p + 2 + HashLen)
         THEN HashLen + 2
    ELSE IF HexRun(text, p) /\ Boundary(text, p + HashLen) THEN HashLen
    ELSE 0

\* Variant: the search that reports the last match of the text.
_TX_HASH_RE_search_last(text) ==
    LET starts == { p \in 1..Len(text) : MatchLen(text, p) > 0 }
    IN IF starts = {} THEN 0
       ELSE CHOOSE p \in starts : \A q \in starts : q <= p

\* _TX_HASH_RE.search(text): the start of the leftmost match, 0 for None
\* (mcp_evm.py:175).
_TX_HASH_RE_search(text) ==
    LET starts == { p \in 1..Len(text) : MatchLen(text, p) > 0 }
    IN IF starts = {} THEN 0
       ELSE CHOOSE p \in starts : \A q \in starts : p <= q

\* The success block up to the hash (mcp_evm.py:180-183).
normalized_head ==
    <<"\n", "T", "r", "a", "n", "s", "a", "k", "t", "i", "o", "n",
      " ", "e", "r", "f", "o", "l", "g", "r", "e", "i", "c", "h",
      " ", "ü", "b", "e", "r", "m", "i", "t", "t", "e", "l", "t",
      "\n", "-", "-", "-", "-", "-", "-", "-", "-", "-", "-", "-",
      "-", "-", "-", "-", "-", "-", "-", "-", "-", "-", "-", "-",
      "-", "-", "-", "-", "-", "-", "-", "-", "-", "-", "-", "-",
      "\n", "H", "a", "s", "h", ":", " ">>

\* The success block for a hash (mcp_evm.py:180-184).
normalized(tx_hash) == normalized_head \o tx_hash \o <<"\n">>

\* _normalize_tx_text (mcp_evm.py:173-184)
_normalize_tx_text(text) ==
    LET p == _TX_HASH_RE_search(text)
    IN IF p = 0 THEN text
       ELSE normalized(SubSeq(text, p, p + MatchLen(text, p) - 1))

\* run_agent displays the text of the finished run (mcp_evm.py:281-284).
DisplayOutput(r) ==
    /\ runs[r].text # NoText
    /\ runs[r].shown = NoText
    /\ runs' = [runs EXCEPT ![r].shown = _normalize_tx_text(runs[r].text)]
    /\ UNCHANGED <<config, chain, calls>>

\* Variant: the membership test returned instead of the comparison with "y".
_confirm_tool_cli_any(ans) == ans \in {"y", "n"}

\* _confirm_tool_cli returns once the answer is y or n (mcp_evm.py:230-234).
_confirm_tool_cli(ans) == ans = "y"

\* `.strip().lower()` of a typed line (mcp_evm.py:231), for the lines the
\* users of the model type.
strip_lower(line) ==
    CASE line \in {"Y", " y "} -> "y"
      [] line \in {"N", " n "} -> "n"
      [] OTHER -> line

\* Variant: a prompt that takes any other line for a refusal.
prompt_loop_defaulting(typed) ==
    IF typed = <<>> THEN "none"
    ELSE IF strip_lower(Head(typed)) = "y" THEN "y" ELSE "n"

\* The `while True` loop of _confirm_tool_cli (mcp_evm.py:230-234) over the
\* lines typed so far: the first line that is y or n ends it, any other line
\* is answered by the hint and the prompt again; "none" while it still asks.
RECURSIVE prompt_loop(_)
prompt_loop(typed) ==
    IF typed = <<>> THEN "none"
    ELSE IF strip_lower(Head(typed)) \in {"y", "n"} THEN strip_lower(Head(typed))
    ELSE prompt_loop(Tail(typed))

\* The lines of a user who answers at once.
PlainAnswers == {<<"y">>, <<"n">>}

\* Variant: a loop that asks again about tool calls already decided.
ConfirmTool_asking_again(r, Typed) ==
    /\ runs[r].pc = "paused"
    /\ \E c \in CallsOf(r), typed \in Typed :
         /\ calls[c].pc \in {"pending", "decided"}
         /\ calls[c].decisions < 3
         /\ prompt_loop(typed) # "none"
         /\ calls' = [calls EXCEPT ![c].pc = "decided",
                       ![c].answer = prompt_loop(typed), ![c].typed = typed,
                       ![c].decisions = @ + 1,
                       ![c].conf = IF _confirm_tool_cli(prompt_loop(typed))
                                   THEN "approved" ELSE "denied"]
    /\ UNCHANGED <<config, chain, runs>>

\* One round of `for t in tools_conf: t.confirmed = _confirm_tool_cli(t)`
\* (mcp_evm.py:275-276), in the order of the list: the user types the lines
\* of typed, the last of which ends the prompt; lines that do not end it
\* leave the tool call waiting.
ConfirmTool(r, Typed) ==
    /\ runs[r].pc = "paused"
    /\ Pending(r) # {}
    /\ LET c == CHOOSE c \in Pending(r) : \A d \in Pending(r) : c <= d IN
       \E typed \in Typed :
         /\ prompt_loop(typed) # "none"
         /\ prompt_loop(SubSeq(typed, 1, Len(typed) - 1)) = "none"
         /\ calls' = [calls EXCEPT ![c].pc = "decided",
                       ![c].answer = prompt_loop(typed), ![c].typed = typed,
                       ![c].decisions = @ + 1,
                       ![c].conf = IF _confirm_tool_cli(prompt_loop(typed))
                                   THEN "approved" ELSE "denied"]
    /\ UNCHANGED <<config, chain, runs>>

\* input() raises EOFError at the confirmation prompt (mcp_evm.py:231): the
\* run ends in the except clause (289-290) with the tool calls undecided,
\* and the session ends at its own prompt (309, 316-317).
EndOfInput(r) ==
    /\ runs[r].pc = "paused"
    /\ Pending(r) # {}
    /\ runs' = [runs EXCEPT ![r].pc = "ended"]
    /\ UNCHANGED <<config, chain, calls>>

\* What acontinue_run does with a decided tool call: a confirmed one is
\* executed, a rejected one is answered without being executed.
Continued(call) ==
    IF call.pc # "decided" THEN call
    ELSE IF call.conf = "approved" THEN [call EXCEPT !.pc = "spawn"]
    ELSE [call EXCEPT !.pc = "done", !.result = Result("Rejected")]

\* Variant: the run is continued while tool calls are still undecided.
ContinueRun_early(r) ==
    /\ runs[r].pc = "paused"
    /\ calls' = [c \in CallIds |->
                   IF calls[c].run = r THEN Continued(calls[c]) ELSE calls[c]]
    /\ runs' = [runs EXCEPT ![r].pc = "running"]
    /\ UNCHANGED <<config, chain>>

\* agent.acontinue_run(run_response) after the loop over tools_conf
\* (mcp_evm.py:279).
ContinueRun(r) ==
    /\ runs[r].pc = "paused"
    /\ Pending(r) = {}
    /\ calls' = [c \in CallIds |->
                   IF calls[c].run = r THEN Continued(calls[c]) ELSE calls[c]]
    /\ runs' = [runs EXCEPT ![r].pc = "running"]
    /\ UNCHANGED <<config, chain>>

\* The body of a wrapper up to the tool call: call_mcp_tool starts a server
\* process of its own and calls the server's tool with the wrapper's
\* arguments (mcp_evm.py:55-62, 86, 92-97; mcp_evm_ui.py:28-29, 34-40).
\* send_erc20_token has no token_address parameter (server.py:343).
WrapperCallsTool(c) ==
    /\ Active(c)
    /\ calls[c].pc = "spawn"
    /\ \E reachable \in BOOLEAN :
         IF web3_lifespan(reachable)
         THEN calls' = [calls EXCEPT ![c].pc = "called"]
         ELSE Raise(c, Result("ToolFailed"))
    /\ UNCHANGED <<config, chain, runs>>

(* --------------------------- specifications --------------------------- *)
AliceLower == Addr("alice", "lower")

\* A session before its first run.
NoRun == [pc |-> "idle", served |-> FALSE, startup |-> "none",
          reachable |-> FALSE, warned |-> FALSE, text |-> NoText,
          shown |-> NoText]

InitRuns ==
    /\ chain_id = 1
    /\ txcount = 0
    /\ mempool = {}
    /\ balance = [a \in Assets |-> [w \in Accounts |-> <<>>]]
    /\ runs = [r \in Runs |-> NoRun]
    /\ calls = <<>>

\* The steps of the sessions in Sessions, whose agents request at most limit
\* tool calls, with destinations in Tos and amounts in Amounts, while the node
\* quotes the gas prices in Prices.
GatewayNext(Sessions, limit, Tos, Amounts, Prices) ==
    \/ \E r \in Sessions : StartRun(r, limit)
    \/ \E r \in Sessions : AgentCallsServerTool(r, limit, Tos, Amounts)
    \/ \E r \in Sessions : AgentCallsHitl(r, limit, Tos, Amounts)
    \/ \E r \in Sessions : RunReturns(r)
    \/ \E r \in Sessions : ConfirmTool(r, PlainAnswers)
    \/ \E r \in Sessions : ContinueRun(r)
    \/ \E c \in 1..MaxCalls : WrapperCallsTool(c)
    \/ \E c \in 1..MaxCalls : ToolChecks(c)
    \/ \E c \in 1..MaxCalls : GetTransactionCount(c)
    \/ \E c \in 1..MaxCalls : GetGasPrice(c, Prices)
    \/ \E c \in 1..MaxCalls : EstimateGas(c)
    \/ \E c \in 1..MaxCalls : SendRawTransaction(c)
    \/ Mine

\* Spec: two sessions at once, each with a server process of its own, alice
\* allow-listed for both asset kinds and tokA the configured token.
Init ==
    /\ env = [NETWORK_RPC_URL |-> "url", NETWORK_ID |-> "1",
              PRIVATE_KEY |-> "key",
              ETH_WHITELIST |-> <<Addr("alice", "upper"), Garbage>>,
              ERC20_WHITELIST |-> <<Addr("alice", "lower")>>,
              ERC20_TOKEN_ADDRESS |-> Addr("tokA", "lower")]
    /\ token_decimals = 18
    /\ InitRuns

Next == GatewayNext(Runs, MaxCalls, {AliceLower}, {1}, GasPrices)

Spec == Init /\ [][Next]_vars

\* SpecSession: one session of Spec alone.
NextSession == GatewayNext({"r1"}, MaxCalls, {AliceLower}, {1}, GasPrices)

SpecSession == Init /\ [][NextSession]_vars

\* SpecAuth: one tool call, for every configuration of the allow-lists and of
\* the token contract and every kind of destination and amount.
EnvValues ==
    { <<>>,
      <<Addr("alice", "upper"), Garbage>>,
      <<Addr("alice", "badcase")>>,
      <<Addr("bob", "lower"), Addr("alice", "checksum")>> }

InitAuth ==
    /\ env \in [NETWORK_RPC_URL : {"url"}, NETWORK_ID : {"1"},
                 PRIVATE_KEY : {"key"},
                 ETH_WHITELIST : EnvValues, ERC20_WHITELIST : EnvValues,
                 ERC20_TOKEN_ADDRESS : {NoAddr, Addr("tokA", "lower")}]
    /\ token_decimals = IF env.ERC20_TOKEN_ADDRESS = NoAddr THEN NoDecimals ELSE 18
    /\ InitRuns

NextAuth == GatewayNext({"r1"}, 1, AddrStrings, {-1, 0, 1, 2}, GasPrices)

SpecAuth == InitAuth /\ [][NextAuth]_vars

\* SpecConfirm: one session whose agent reaches the send tools through the
\* confirmed wrappers only, at a steady gas price.
NextConfirm ==
    \/ StartRun("r1", MaxCalls)
    \/ AgentCallsHitl("r1", MaxCalls, {AliceLower}, {1})
    \/ RunReturns("r1")
    \/ ConfirmTool("r1", PlainAnswers)
    \/ ContinueRun("r1")
    \/ \E c \in 1..MaxCalls : WrapperCallsTool(c)
    \/ \E c \in 1..MaxCalls : ToolChecks(c)
    \/ \E c \in 1..MaxCalls : GetTransactionCount(c)
    \/ \E c \in 1..MaxCalls : GetGasPrice(c, {1})
    \/ \E c \in 1..MaxCalls : EstimateGas(c)
    \/ \E c \in 1..MaxCalls : SendRawTransaction(c)
    \/ Mine

SpecConfirm == Init /\ [][NextConfirm]_vars

\* SpecPrompt: the session of SpecConfirm with a user who may also type
\* capitals, blanks and other lines before the answer, or end the input; the
\* agent requests two tool calls at most.
TypedLines ==
    PlainAnswers \cup {<<"Y">>, <<"x", "y">>, <<"", " n ">>, <<"yes", "N">>,
                       <<"x">>, <<"", "yes">>}

NextPrompt ==
    \/ StartRun("r1", 2)
    \/ AgentCallsHitl("r1", 2, {AliceLower}, {1})
    \/ RunReturns("r1")
    \/ ConfirmTool("r1", TypedLines)
    \/ EndOfInput("r1")
    \/ ContinueRun("r1")
    \/ \E c \in 1..MaxCalls : WrapperCallsTool(c)
    \/ \E c \in 1..MaxCalls : ToolChecks(c)
    \/ \E c \in 1..MaxCalls : GetTransactionCount(c)
    \/ \E c \in 1..MaxCalls : GetGasPrice(c, {1})
    \/ \E c \in 1..MaxCalls : EstimateGas(c)
    \/ \E c \in 1..MaxCalls : SendRawTransaction(c)
    \/ Mine

SpecPrompt == Init /\ [][NextPrompt]_vars

\* SpecAssistant: one session whose agent has the confirmed wrappers and the
\* read tools of its server (mcp_evm.py:247), for two tool calls.
NextAssistant ==
    \/ StartRun("r1", 2)
    \/ AgentCallsHitl("r1", 2, {AliceLower}, {1})
    \/ AgentCallsReadTool("r1", 2, {AliceLower})
    \/ RunReturns("r1")
    \/ ConfirmTool("r1", PlainAnswers)
    \/ ContinueRun("r1")
    \/ \E c \in 1..MaxCalls : WrapperCallsTool(c)
    \/ \E c \in 1..MaxCalls : ToolChecks(c)
    \/ \E c \in 1..MaxCalls : GetTransactionCount(c)
    \/ \E c \in 1..MaxCalls : GetGasPrice(c, {1})
    \/ \E c \in 1..MaxCalls : EstimateGas(c)
    \/ \E c \in 1..MaxCalls : SendRawTransaction(c)
    \/ \E c \in 1..MaxCalls : ReadChecks(c)
    \/ \E c \in 1..MaxCalls : QueryBalance(c)
    \/ \E c \in 1..MaxCalls : QuerySenderBalance(c)
    \/ \E c \in 1..MaxCalls : QueryGasPrice(c, {1})
    \/ Mine

SpecAssistant == Init /\ [][NextAssistant]_vars

\* The steps of server processes whose five tools the agents call themselves,
\* with the arguments drawn from Tos, Amounts and Addresses.
ServerNext(Sessions, limit, Tos, Amounts, Addresses, Prices) ==
    \/ \E r \in Sessions : StartRun(r, limit)
    \/ \E r \in Sessions : AgentCallsServerTool(r, limit, Tos, Amounts)
    \/ \E r \in Sessions : AgentCallsReadTool(r, limit, Addresses)
    \/ \E r \in Sessions : RunReturns(r)
    \/ \E c \in 1..MaxCalls : ToolChecks(c)
    \/ \E c \in 1..MaxCalls : GetTransactionCount(c)
    \/ \E c \in 1..MaxCalls : GetGasPrice(c, Prices)
    \/ \E c \in 1..MaxCalls : EstimateGas(c)
    \/ \E c \in 1..MaxCalls : SendRawTransaction(c)
    \/ \E c \in 1..MaxCalls : ReadChecks(c)
    \/ \E c \in 1..MaxCalls : QueryBalance(c)
    \/ \E c \in 1..MaxCalls : QuerySenderBalance(c)
    \/ \E c \in 1..MaxCalls : QueryGasPrice(c, Prices)
    \/ Mine

\* SpecServer: one session whose agent calls the five tools of its server,
\* with and without a configured token, reading well-formed and malformed
\* addresses.
BobBadcase == Addr("bob", "badcase")

InitServer ==
    /\ env \in [NETWORK_RPC_URL : {"url"}, NETWORK_ID : {"1"},
                 PRIVATE_KEY : {"key"},
                 ETH_WHITELIST : {<<Addr("alice", "upper"), Garbage>>},
                 ERC20_WHITELIST : {<<Addr("alice", "lower")>>},
                 ERC20_TOKEN_ADDRESS : {NoAddr, Addr("tokA", "lower")}]
    /\ token_decimals = IF env.ERC20_TOKEN_ADDRESS = NoAddr THEN NoDecimals ELSE 18
    /\ InitRuns

NextServer == ServerNext({"r1"}, MaxCalls, {AliceLower}, {1},
                         {AliceLower, BobBadcase}, {1})

SpecServer == InitServer /\ [][NextServer]_vars

\* SpecUnits: one tool call, for every precision the token may have, whole
\* amounts small and large, and the amounts that are not finite.
UnitAmounts == {1, 5, 2363} \cup NonFinite

InitUnits ==
    /\ env \in [NETWORK_RPC_URL : {"url"}, NETWORK_ID : {"1"},
                 PRIVATE_KEY : {"key"},
                 ETH_WHITELIST : {<<Addr("alice", "upper")>>},
                 ERC20_WHITELIST : {<<Addr("alice", "lower")>>},
                 ERC20_TOKEN_ADDRESS : {NoAddr, Addr("tokA", "lower")}]
    /\ token_decimals \in IF env.ERC20_TOKEN_ADDRESS = NoAddr THEN {NoDecimals}
                           ELSE {NoDecimals} \cup 0..MaxDecimals
    /\ InitRuns

NextUnits == ServerNext({"r1"}, 1, {AliceLower}, UnitAmounts, {AliceLower},
                        GasPrices)

SpecUnits == InitUnits /\ [][NextUnits]_vars

\* SpecRoundTrip: one tool call on a chain where alice holds a small token
\* balance, for every precision the token may have.
MaxBalance == 30

InitRoundTrip ==
    /\ env \in [NETWORK_RPC_URL : {"url"}, NETWORK_ID : {"1"},
                 PRIVATE_KEY : {"key"},
                 ETH_WHITELIST : {<<Addr("alice", "upper")>>},
                 ERC20_WHITELIST : {<<Addr("alice", "lower")>>},
                 ERC20_TOKEN_ADDRESS : {Addr("tokA", "lower")}]
    /\ token_decimals \in {NoDecimals} \cup 0..MaxDecimals
    /\ chain_id = 1
    /\ txcount = 0
    /\ mempool = {}
    /\ \E b \in 0..MaxBalance :
         balance = [a \in Assets |-> [w \in Accounts |->
                      IF a = "tokA" /\ w = "alice" THEN Big(b) ELSE <<>>]]
    /\ runs = [r \in Runs |-> NoRun]
    /\ calls = <<>>

NextRoundTrip == ServerNext({"r1"}, 1, {AliceLower}, {1}, {AliceLower}, {1})

SpecRoundTrip == InitRoundTrip /\ [][NextRoundTrip]_vars

\* SpecStartup: one tool call of a session whose server starts in every
\* configuration of the connection, the key and the token address, on a
\* chain with the expected identifier or with another.
InitStartup ==
    /\ env \in [NETWORK_RPC_URL : {"", "url"}, NETWORK_ID : {"", "1", "2"},
                 PRIVATE_KEY : {"", "0x", "key", "0xkey"},
                 ETH_WHITELIST : {<<Addr("alice", "upper")>>},
                 ERC20_WHITELIST : {<<Addr("alice", "lower")>>},
                 ERC20_TOKEN_ADDRESS : {NoAddr, Addr("tokA", "lower"), Garbage,
                                        Addr("tokA", "badcase")}]
    /\ token_decimals \in IF env.ERC20_TOKEN_ADDRESS = Addr("tokA", "lower")
                           THEN {NoDecimals, 18} ELSE {NoDecimals}
    /\ chain_id \in {1, 2}
    /\ txcount = 0
    /\ mempool = {}
    /\ balance = [a \in Assets |-> [w \in Accounts |-> <<>>]]
    /\ runs = [r \in Runs |-> NoRun]
    /\ calls = <<>>

NextStartup == ServerNext({"r1"}, 1, {AliceLower}, {1}, {AliceLower}, {1})

SpecStartup == InitStartup /\ [][NextStartup]_vars

\* SpecText: the output stage of a run alone, for every final text made of
\* a short beginning, a body around one or two runs of hexadecimal digits,
\* and at most one closing character.
MaxAffix == 2

TextChars == {"0", "x", "f", " "}
Strings(n) == UNION { [1..k -> TextChars] : k \in 0..n }

HexRunOf(ch, n) == [i \in 1..n |-> ch]

TextBodies ==
    { HexRunOf("a", HashLen),
      HexRunOf("a", HashLen - 1),
      HexRunOf("a", HashLen + 1),
      HexRunOf("A", HashLen - 1) \o <<"9">>,
      HexRunOf("a", HashLen - 1) \o <<"g">>,
      HexRunOf("a", HashLen) \o <<" ">> \o HexRunOf("b", HashLen),
      <<"H", "a", "s", "h", ":", " ">> \o HexRunOf("c", HashLen)
          \o <<".", " ">> \o <<"0", "x">> \o HexRunOf("d", HashLen) }

Texts ==
    { pre \o body \o post :
        pre \in Strings(MaxAffix), body \in TextBodies, post \in Strings(1) }

InitText ==
    /\ env = [NETWORK_RPC_URL |-> "url", NETWORK_ID |-> "1",
              PRIVATE_KEY |-> "key",
              ETH_WHITELIST |-> <<Addr("alice", "upper")>>,
              ERC20_WHITELIST |-> <<Addr("alice", "lower")>>,
              ERC20_TOKEN_ADDRESS |-> Addr("tokA", "lower")]
    /\ token_decimals = 18
    /\ chain_id = 1
    /\ txcount = 0
    /\ mempool = {}
    /\ balance = [a \in Assets |-> [w \in Accounts |-> <<>>]]
    /\ calls = <<>>
    /\ \E text \in Texts :
         runs = [r \in Runs |-> IF r = "r1" THEN [NoRun EXCEPT !.text = text]
                                ELSE NoRun]

NextText == \E r \in {"r1"} : DisplayOutput(r)

SpecText == InitText /\ [][NextText]_vars

(* ------------------------------- claims -------------------------------- *)
\* The server's tool was invoked for call c and has returned.
ToolResultKinds ==
    {"NotConnected", "NoSender", "NoTokenContract", "InvalidAddress",
     "AmountNotPositive", "NoPrivateKey", "NotWhitelisted", "GasEstimationFailed",
     "ErrorSendingEth", "UnexpectedError", "Submitted",
     "Balance", "TokenBalance", "GasPrice", "ErrorGettingBalance",
     "ErrorGettingTokenBalance", "ErrorGettingGasPrice"}
ToolReturned(c) == calls[c].pc = "done" /\ calls[c].result.kind \in ToolResultKinds

\* The tool could not use its context: the connection probe failed or no token
\* contract is loaded.
ContextErrors == {"NotConnected", "NoSender", "NoTokenContract"}

WhitelistOf(c) ==
    IF calls[c].tool = "send_eth" THEN ETH_WHITELIST ELSE ERC20_WHITELIST
EnvListOf(c) ==
    IF calls[c].tool = "send_eth" THEN env.ETH_WHITELIST ELSE env.ERC20_WHITELIST

\* The destination of call c is in the allow-list of its asset kind.
InAllowList(c) ==
    /\ is_address(calls[c].to)
    /\ to_checksum_address(calls[c].to) \in WhitelistOf(c)

NonceRead(c) == calls[c].nonce # -1
Submitted(c) == calls[c].sent # "no"
InTool(c) == calls[c].pc \in {"authorized", "have_nonce", "priced", "built"}

\* C1: a transaction is signed and handed to send_raw_transaction only for a
\* call whose pending confirmation is approved, on every route to the tools.
C1_BroadcastOnlyWhenApproved ==
    \A c \in CallIds : Submitted(c) => calls[c].conf = "approved"

\* C2: a call whose confirmation was answered with a denial never reads the
\* nonce, never reaches send_raw_transaction, and ends with the rejection result.
C2_DeniedNeverBroadcasts ==
    \A c \in CallIds :
      calls[c].answer = "n" =>
        /\ calls[c].conf = "denied"
        /\ ~NonceRead(c)
        /\ ~Submitted(c)
        /\ calls[c].pc \in {"decided", "done"}
        /\ calls[c].pc = "done" => calls[c].result = Result("Rejected")

C2_Witness ==
    \E c, d \in CallIds :
      /\ calls[c].answer = "n" /\ calls[c].pc = "done"
      /\ calls[d].answer = "y" /\ calls[d].sent = "accepted"

\* C3: an approved wrapper call with well-formed, allow-listed arguments, no
\* failing RPC, a node that takes the transaction and a transfer the contract
\* permits ends with exactly one accepted transaction that carries the
\* confirmed destination, amount and (for a token) token address.
C3_ApprovedSendsConfirmedArgs ==
    \A c \in CallIds :
      ( /\ calls[c].route = "hitl"
        /\ calls[c].conf = "approved"
        /\ calls[c].pc = "done"
        /\ InAllowList(c)
        /\ calls[c].amount > 0
        /\ ~calls[c].rpc_failed
        /\ calls[c].sent # "refused"
        /\ calls[c].result.kind # "GasEstimationFailed" )
      => /\ calls[c].sent = "accepted"
         /\ calls[c].tx.to = to_checksum_address(calls[c].to)
         /\ calls[c].tx.amount = calls[c].amount
         /\ calls[c].tx.asset = IF calls[c].tool = "send_eth" THEN "eth"
                                ELSE calls[c].token_address.acct

\* C4 as claimed: every destination outside the allow-list, with every amount,
\* gets the authorization error naming it, without nonce read or submission.
C4_Original ==
    \A c \in CallIds :
      (ToolReturned(c) /\ ~InAllowList(c)) =>
        /\ calls[c].result = ResultNaming("NotWhitelisted", calls[c].to)
        /\ ~NonceRead(c)
        /\ ~Submitted(c)

\* C4 as amended: a destination outside the allow-list never gets past the
\* checks (no nonce read, no submission, whatever the amount); and when it is
\* well-formed, the amount is positive and the context is usable, the result
\* is the authorization error naming the address as given.
C4_Amended ==
    \A c \in CallIds :
      ~InAllowList(c) =>
        /\ ~NonceRead(c)
        /\ ~Submitted(c)
        /\ ~InTool(c)
        /\ ( /\ ToolReturned(c)
             /\ is_address(calls[c].to)
             /\ calls[c].amount > 0
             /\ calls[c].result.kind \notin ContextErrors )
           => calls[c].result = ResultNaming("NotWhitelisted", calls[c].to)

C4_Witness ==
    \E c \in CallIds :
      /\ ToolReturned(c)
      /\ ~InAllowList(c)
      /\ is_address(calls[c].to)
      /\ calls[c].amount > 0
      /\ calls[c].result = ResultNaming("NotWhitelisted", calls[c].to)

\* C5: a call with an amount <= 0 ends in the checks: no nonce is read, nothing
\* is signed or sent, and with a usable context the result is the validation
\* error (the address error for a malformed destination, else the amount
\* error), whatever the allow-lists hold.
C5_NonPositiveAmountRejected ==
    \A c \in CallIds :
      calls[c].amount <= 0 =>
        /\ ~NonceRead(c)
        /\ ~Submitted(c)
        /\ ~InTool(c)
        /\ (ToolReturned(c) /\ calls[c].result.kind \notin ContextErrors)
           => calls[c].result =
                IF is_address(calls[c].to) THEN Result("AmountNotPositive")
                ELSE ResultNaming("InvalidAddress", calls[c].to)

C5_Witness ==
    \E c \in CallIds :
      /\ calls[c].amount <= 0
      /\ InAllowList(c)
      /\ ToolReturned(c)
      /\ calls[c].result = Result("AmountNotPositive")

\* C6: no two transactions the node accepted from the sender carry the same nonce.
C6_NoNonceReuse ==
    \A c, d \in CallIds :
      (c # d /\ calls[c].sent = "accepted" /\ calls[d].sent = "accepted")
      => calls[c].tx.nonce # calls[d].tx.nonce

\* C7: the nonces of the N transactions that sends of different server
\* processes got accepted are N distinct consecutive integers, starting at the
\* sender's first nonce.
C7_NoncesConsecutive ==
    LET sub == { c \in CallIds : calls[c].sent = "accepted" } IN
    (\A c, d \in sub : c # d => calls[c].run # calls[d].run)
    => { calls[c].tx.nonce : c \in sub } = 0..(Cardinality(sub) - 1)

\* C8: no two sends are at once between their nonce read and the end of
\* their submission attempt.
C8_NonceRegionExclusive ==
    \A c, d \in CallIds :
      c # d => ~(calls[c].pc \in {"have_nonce", "priced", "built"}
                 /\ calls[d].pc \in {"have_nonce", "priced", "built"})

\* C9: a malformed destination never gets the not-whitelisted error; with a
\* usable context its result is the invalid-address error naming it, for every
\* content of the allow-lists.
C9_FormatCheckedFirst ==
    \A c \in CallIds :
      (ToolReturned(c) /\ ~is_address(calls[c].to)) =>
        /\ calls[c].result.kind # "NotWhitelisted"
        /\ calls[c].result.kind \notin ContextErrors
           => calls[c].result = ResultNaming("InvalidAddress", calls[c].to)

C9_Witness ==
    \E c \in CallIds :
      /\ ToolReturned(c)
      /\ calls[c].to = Addr("alice", "badcase")
      /\ calls[c].amount > 0
      /\ to_checksum_address(calls[c].to) \in WhitelistOf(c)
      /\ calls[c].result = ResultNaming("InvalidAddress", calls[c].to)

\* C10: whether a well-formed destination passes the allow-list check depends
\* only on the account it spells and on the accounts the well-formed entries
\* of the configured list spell, not on the letter case of either.
C10_CaseInsensitiveAllowList ==
    \A c \in CallIds :
      ( /\ is_address(calls[c].to)
        /\ calls[c].amount > 0
        /\ \/ InTool(c)
           \/ ToolReturned(c) /\ calls[c].result.kind \notin ContextErrors )
      => ( calls[c].result.kind # "NotWhitelisted"
           <=> \E i \in 1..Len(EnvListOf(c)) :
                 /\ is_address(EnvListOf(c)[i])
                 /\ EnvListOf(c)[i].acct = calls[c].to.acct )

C10_Witness ==
    \E c \in CallIds :
      /\ calls[c].sent = "accepted"
      /\ calls[c].to.sp = "upper"
      /\ \A i \in 1..Len(EnvListOf(c)) : EnvListOf(c)[i].sp # "upper"

\* C11: every transaction handed to the node by send_eth goes to an address of
\* ETH_WHITELIST and every one handed over by send_erc20_token to an address
\* of ERC20_WHITELIST: the list of the other asset kind authorizes nothing.
C11_OnlyAllowListedDestinations ==
    /\ \A c \in CallIds :
         (Submitted(c) \/ InTool(c)) =>
           /\ is_address(calls[c].to)
           /\ to_checksum_address(calls[c].to) \in WhitelistOf(c)
           /\ Submitted(c) => calls[c].tx.to = to_checksum_address(calls[c].to)
    /\ \A p \in mempool :
         p.to \in (IF p.asset = "eth" THEN ETH_WHITELIST ELSE ERC20_WHITELIST)

C11_Witness ==
    \E c \in CallIds :
      /\ calls[c].tool = "send_erc20_token"
      /\ calls[c].sent = "accepted"
      /\ calls[c].tx \in mempool
      /\ calls[c].tx.to \notin ETH_WHITELIST

\* C12: a token transfer whose gas estimation raised a contract-logic failure
\* ends with the estimation error; nothing is signed or handed to the node.
C12_LogicErrorAborts ==
    \A c \in CallIds :
      calls[c].estimate = "logic_error" =>
        /\ calls[c].pc = "done"
        /\ calls[c].result = Result("GasEstimationFailed")
        /\ ~Submitted(c)
        /\ calls[c].tx = NoTx

C12_Witness ==
    \E c \in CallIds :
      /\ calls[c].estimate = "logic_error"
      /\ calls[c].nonce = 0
      /\ calls[c].result = Result("GasEstimationFailed")
      /\ mempool = {}

\* C13: a token transfer whose gas estimation failed otherwise goes on with
\* the gas limit 200000: it is not ended by the estimation, and what it hands
\* to the node carries that limit.
C13_OtherErrorFallsBack ==
    \A c \in CallIds :
      calls[c].estimate = "other_error" =>
        /\ calls[c].gas = 200000
        /\ calls[c].pc \in {"built", "done"}
        /\ calls[c].result.kind # "GasEstimationFailed"
        /\ calls[c].pc = "done" =>
             \/ Submitted(c) /\ calls[c].tx.gas = 200000
             \/ calls[c].rpc_failed /\ ~Submitted(c)

C13_Witness ==
    \E c \in CallIds :
      /\ calls[c].estimate = "other_error"
      /\ calls[c].sent = "accepted"
      /\ calls[c].tx.gas = 200000
      /\ calls[c].result = Result("Submitted")

\* C14: a send that ended with an error result has no transaction of its own
\* taken by the node.
C14_ErrorMeansNoBroadcast ==
    \A c \in CallIds :
      ( /\ calls[c].tool \in ToolNames
        /\ ToolReturned(c)
        /\ calls[c].result.kind # "Submitted" )
      => calls[c].sent # "accepted"

\* C15: no tool call ends with an exception that escapes the tool function.
C15_ToolsNeverRaise ==
    \A c \in CallIds : calls[c].result.kind # "Raised"

\* C16: a call whose connection probe found the node down ends at once with
\* the connection error: no query, no nonce read, nothing built, signed or
\* sent. (That the same server process then serves a later call that finds
\* the node up is what C16_Witness reaches.)
C16_DownMeansConnectionError ==
    \A c \in CallIds :
      calls[c].connected = "down" =>
        /\ calls[c].pc = "done"
        /\ calls[c].result = Result("NotConnected")
        /\ calls[c].queries = 0
        /\ ~NonceRead(c)
        /\ calls[c].gasPrice = 0
        /\ calls[c].units = NoUnits
        /\ calls[c].tx = NoTx
        /\ ~Submitted(c)

C16_Witness ==
    \E c, d \in CallIds :
      /\ c < d
      /\ calls[c].tool = "get_network_gas_price"
      /\ calls[c].connected = "down"
      /\ calls[c].result = Result("NotConnected")
      /\ calls[d].reused
      /\ calls[d].tool = "send_eth"
      /\ calls[d].connected = "live"
      /\ calls[d].result = Result("Submitted")

BalanceToolNames == {"get_eth_balance", "get_erc20_token_balance"}

\* C17: a balance tool called with a malformed address issues no query to the
\* chain, and with a usable context (node up, and for the token a contract
\* loaded) its result is the invalid-address error naming the address.
C17_MalformedAddressNoQuery ==
    \A c \in CallIds :
      (calls[c].tool \in BalanceToolNames /\ ~is_address(calls[c].to)) =>
        /\ calls[c].queries = 0
        /\ calls[c].value = NoUnits
        /\ calls[c].pc \in {"called", "done"}
        /\ (calls[c].pc = "done" /\ calls[c].result.kind \notin ContextErrors)
           => calls[c].result = ResultNaming("InvalidAddress", calls[c].to)

C17_Witness ==
    \E c \in CallIds :
      /\ calls[c].tool = "get_erc20_token_balance"
      /\ calls[c].to = BobBadcase
      /\ calls[c].connected = "live"
      /\ calls[c].result = ResultNaming("InvalidAddress", BobBadcase)
      /\ calls[c].queries = 0

ReadSucceeded(c) ==
    /\ calls[c].pc = "done"
    /\ calls[c].result.kind \in {"Balance", "TokenBalance", "GasPrice"}

\* C18: a read tool never reads the sender's nonce and never builds, signs or
\* sends anything; two balance reads of one address against the same chain
\* state give the same result; and no step of a read call changes the
\* configuration, the context, the allow-lists or the chain.
C18_ReadsHaveNoEffect ==
    /\ [](\A c \in CallIds :
            calls[c].tool \in ReadToolNames =>
              /\ ~NonceRead(c)
              /\ calls[c].units = NoUnits
              /\ calls[c].tx = NoTx
              /\ ~Submitted(c)
              /\ \A d \in CallIds :
                   ( /\ calls[d].tool = calls[c].tool
                     /\ calls[c].tool \in BalanceToolNames
                     /\ calls[d].to.acct = calls[c].to.acct
                     /\ ReadSucceeded(c) /\ ReadSucceeded(d)
                     /\ calls[d].height = calls[c].height )
                   => /\ calls[d].value = calls[c].value
                      /\ calls[d].scale = calls[c].scale
                      /\ calls[d].result = calls[c].result)
    /\ [][ (\E c \in 1..Len(calls') :
              /\ calls'[c].tool \in ReadToolNames
              /\ c > Len(calls) \/ calls'[c] # calls[c])
           => /\ UNCHANGED <<config, chain>>
              /\ ETH_WHITELIST' = ETH_WHITELIST
              /\ ERC20_WHITELIST' = ERC20_WHITELIST ]_vars

C18_Witness ==
    \E c, d \in CallIds :
      /\ c < d
      /\ calls[c].tool = "get_eth_balance" /\ calls[d].tool = "get_eth_balance"
      /\ ReadSucceeded(c) /\ ReadSucceeded(d)
      /\ calls[c].height = calls[d].height
      /\ calls[c].queries = 1 /\ calls[d].queries = 1

TokenToolNames == {"send_erc20_token", "get_erc20_token_balance"}

\* C19: without a token contract the two token tools end with the
\* configuration error, with no query, nonce read or submission; with one,
\* both convert with the precision read from the contract, whatever it is.
C19_TokenPrecision ==
    \A c \in CallIds :
      calls[c].tool \in TokenToolNames =>
        /\ (token_contract_instance = NoAddr /\ calls[c].connected = "live") =>
             /\ calls[c].pc = "done"
             /\ calls[c].result = Result("NoTokenContract")
             /\ calls[c].queries = 0
             /\ ~NonceRead(c)
             /\ ~Submitted(c)
        /\ token_decimals # NoDecimals =>
             /\ calls[c].units # NoUnits =>
                  calls[c].units =
                    amount_in_smallest_unit(calls[c].amount, token_decimals)
             /\ calls[c].value # NoUnits => calls[c].scale = token_decimals

\* C20: the transfer a token send submits carries exactly
\* amount * 10^decimals smallest units, for every whole amount and every
\* precision from 1 to MaxDecimals.
C20_SmallestUnitAmount ==
    \A c \in CallIds :
      ( /\ calls[c].tool = "send_erc20_token"
        /\ Submitted(c)
        /\ token_decimals >= 1 )
      => calls[c].tx.units = Times(Pow10(token_decimals), calls[c].amount)

\* C21: a token balance shown in human units converts back, the way a
\* transfer converts its amount, to the balance in smallest units it was
\* computed from.
C21_BalanceRoundTrips ==
    \A c \in CallIds :
        (calls[c].tool = "get_erc20_token_balance" /\ calls[c].human # NoFloat)
            => smallest_unit_of(calls[c].human, calls[c].scale) = calls[c].value

\* The configuration lacks an essential value or names a malformed token.
BadConfiguration ==
    \/ ~essential_env
    \/ TOKEN_CONTRACT_ADDRESS # NoAddr /\ ~is_address(TOKEN_CONTRACT_ADDRESS)

\* C22: a server started without the RPC endpoint, the chain identifier or
\* the key, with a malformed token address, or while the endpoint is not
\* reachable, raises at startup: it yields no context, its session's run
\* ends at once and it serves no tool call; with such a configuration no
\* tool call is ever made.
C22_StartupFailsFatally ==
    /\ \A r \in Runs :
          (runs[r].startup # "none" /\ (BadConfiguration \/ ~runs[r].reachable))
              => /\ runs[r].startup = "raised"
                 /\ runs[r].pc = "idle"
                 /\ ~runs[r].served
    /\ BadConfiguration => calls = <<>>

C22_Witness ==
    \E r \in Runs :
        /\ runs[r].startup = "raised"
        /\ runs[r].reachable
        /\ essential_env
        /\ TOKEN_CONTRACT_ADDRESS = Addr("tokA", "badcase")

\* C23: a started server has detected a chain identifier mismatch exactly
\* when the connected chain's identifier differs from NETWORK_ID.
C23_MismatchDetectedIffDiffers ==
    \A r \in Runs :
        runs[r].startup = "yielded"
            => (runs[r].warned <=> chain_id # int_of_str(NETWORK_ID))

\* C24: when the token is configured and its decimals() call failed at
\* startup, a start on a reachable endpoint still yields the context, and
\* every token transfer and token balance converts with 18 decimals.
C24_DecimalsFailureFallsBackTo18 ==
    (token_decimals = NoDecimals /\ essential_env
       /\ TOKEN_CONTRACT_ADDRESS # NoAddr /\ is_address(TOKEN_CONTRACT_ADDRESS))
    => /\ \A r \in Runs :
            (runs[r].startup # "none" /\ runs[r].reachable)
                => runs[r].startup = "yielded"
       /\ \A c \in CallIds :
            /\ (calls[c].tool = "send_erc20_token" /\ calls[c].units # NoUnits)
                  => calls[c].units = amount_in_smallest_unit(calls[c].amount, 18)
            /\ (calls[c].tool = "get_erc20_token_balance"
                   /\ calls[c].human # NoFloat)
                  => /\ calls[c].scale = 18
                     /\ calls[c].human = balance_normal(calls[c].value, 18)

C24_Witness ==
    /\ token_decimals = NoDecimals
    /\ \E c \in CallIds :
         /\ calls[c].tool = "send_erc20_token"
         /\ calls[c].units = Times(Pow10(18), calls[c].amount)
         /\ calls[c].result = Result("Submitted")

\* The tool calls of session r that wait for a decision.
Undecided(r) == { c \in CallsOf(r) : calls[c].conf = "undecided" }

\* C25: a paused run is continued, or ends with its output, only when every
\* one of its tool calls that requires confirmation has been accepted or
\* denied; a session at its prompt has no undecided tool call.
C25_NoProgressWhileUndecided ==
    /\ [](\A r \in Runs : runs[r].pc = "idle" => Undecided(r) = {})
    /\ [][\A r \in Runs :
            (runs[r].pc = "paused" /\ runs'[r].pc \in {"running", "idle"})
                => Undecided(r) = {}]_vars

\* A run was continued after two tool calls had been decided.
C25_Witness ==
    \E c, d \in CallIds :
        /\ c < d
        /\ calls[c].run = calls[d].run
        /\ runs[calls[c].run].pc = "running"
        /\ calls[c].conf = "approved" /\ calls[c].pc # "decided"
        /\ calls[d].conf = "denied" /\ calls[d].result = Result("Rejected")

\* C27: a tool call that requires confirmation is decided at most once,
\* it is approved or denied exactly when it has been decided, and no step
\* changes a decision once it is made.
C27_DecidedExactlyOnce ==
    /\ [](\A c \in CallIds :
            /\ calls[c].decisions <= 1
            /\ calls[c].conf \in {"approved", "denied"} <=> calls[c].decisions = 1)
    /\ [][\A c \in CallIds :
            calls[c].conf \in {"approved", "denied"}
                => /\ calls'[c].conf = calls[c].conf
                   /\ calls'[c].answer = calls[c].answer]_vars

\* Both tool calls of a run were decided, differently, and the run then
\* paused again on nothing.
C27_Witness ==
    \E c, d \in CallIds :
        /\ c # d
        /\ calls[c].decisions = 1 /\ calls[c].conf = "approved"
        /\ calls[d].decisions = 1 /\ calls[d].conf = "denied"
        /\ calls[c].pc = "done" /\ calls[d].pc = "done"

\* The lines before the last one of typed.
Earlier(typed) == { typed[i] : i \in 1..(Len(typed) - 1) }

\* C28: a confirmation is approved only by a line that reads y and denied
\* only by a line that reads n, every line typed before it was neither, and
\* a tool call nobody answered stays undecided.
C28_DecisionOnlyOnExplicitAnswer ==
    \A c \in CallIds :
        /\ calls[c].conf = "approved"
              => /\ calls[c].typed # <<>>
                 /\ strip_lower(calls[c].typed[Len(calls[c].typed)]) = "y"
        /\ calls[c].conf = "denied"
              => /\ calls[c].typed # <<>>
                 /\ strip_lower(calls[c].typed[Len(calls[c].typed)]) = "n"
        /\ \A line \in Earlier(calls[c].typed) :
              strip_lower(line) \notin {"y", "n"}
        /\ calls[c].typed = <<>> => calls[c].conf \in {"undecided", "none"}

\* A tool call approved after another line was typed first, and one denied
\* after an empty line.
C28_Witness ==
    \E c, d \in CallIds :
        /\ calls[c].typed = <<"x", "y">> /\ calls[c].conf = "approved"
        /\ calls[d].typed = <<"", " n ">> /\ calls[d].conf = "denied"

C29_ReadsStartWhileWaiting ==
    (runs["r1"].pc = "paused" /\ Pending("r1") # {} /\ Len(calls) < 2)
        => ENABLED AgentCallsReadTool("r1", 2, {AliceLower})

\* C30: a send answers "Transaction submitted" only when
\* send_raw_transaction returned the hash, and it answers in the step in
\* which the node accepted the transaction, which is then pooled and not
\* yet in a block.
C30_SubmittedOnAcceptance ==
    /\ [](\A c \in CallIds :
            calls[c].result = Result("Submitted")
                => /\ calls[c].sent = "accepted"
                   /\ ~calls[c].rpc_failed
                   /\ calls[c].pc = "done")
    /\ [][\A c \in CallIds :
            (calls[c].result # Result("Submitted")
               /\ calls'[c].result = Result("Submitted"))
                => /\ calls[c].sent = "no"
                   /\ calls'[c].tx \in mempool'
                   /\ txcount' = txcount]_vars

\* A send has answered while its transaction is pooled and no block has
\* been mined.
C30_Witness ==
    \E c \in CallIds :
        /\ calls[c].result = Result("Submitted")
        /\ calls[c].pc = "done"
        /\ calls[c].tx \in mempool
        /\ txcount = 0

\* C31: no step of a tool, in a call that succeeds or in one that fails,
\* changes the environment's configuration, the allow-lists parsed from it
\* or the context's token_decimals.
C31_ContextReadOnly ==
    [][(\E c \in CallIds : calls'[c] # calls[c] /\ calls[c].pc \in ExecPcs)
         => /\ config' = config
            /\ ETH_WHITELIST' = ETH_WHITELIST
            /\ ERC20_WHITELIST' = ERC20_WHITELIST
            /\ TOKEN_CONTRACT_ADDRESS' = TOKEN_CONTRACT_ADDRESS]_vars

\* A token balance was read with the fallback precision and the context
\* still has none.
C31_Witness ==
    /\ token_decimals = NoDecimals
    /\ \E c \in CallIds :
         /\ calls[c].tool = "get_erc20_token_balance"
         /\ calls[c].scale = 18
         /\ calls[c].pc = "done"

\* The gas limits a token transfer may carry (server.py:412, 419).
TokenGasLimits == {(EstimatedGas * 12) \div 10, FallbackGas}

\* The fields of a transaction a call handed to send_raw_transaction.
BroadcastFieldsOk(c) ==
    LET call == calls[c]
        tx == call.tx
    IN /\ call.tool = "send_eth" => tx.gas = NativeGas
       /\ call.tool = "send_erc20_token" =>
            /\ tx.gas \in TokenGasLimits
            /\ call.estimate = "estimated" => tx.gas = (EstimatedGas * 12) \div 10
            /\ call.estimate = "other_error" => tx.gas = FallbackGas
            /\ call.estimate \in {"estimated", "other_error"}
       /\ tx.gasPrice = call.gasPrice
       /\ call.gasPrice \in GasPrices
       /\ call.nonce # -1
       /\ tx.nonce = call.nonce

\* C32: a broadcast native transfer carries the gas limit 21000, a broadcast
\* token transfer 1.2 times the estimate (fraction dropped) or the fallback
\* 200000; both carry the gas price their own call read, and a call reads the
\* gas price only once it holds the nonce.
C32_GasLimitAndPrice ==
    /\ [](\A c \in CallIds : calls[c].tx # NoTx => BroadcastFieldsOk(c))
    /\ [](\A p \in mempool :
            IF p.asset = "eth" THEN p.gas = NativeGas ELSE p.gas \in TokenGasLimits)
    /\ [][\A c \in CallIds :
            (c \in DOMAIN calls /\ calls'[c].gasPrice # calls[c].gasPrice)
               => calls[c].pc = "have_nonce" /\ calls[c].nonce # -1]_vars

\* A token transfer whose estimation failed was broadcast with the fallback
\* limit at the higher of the two gas prices.
C32_Witness ==
    \E c \in CallIds :
        /\ calls[c].sent = "accepted"
        /\ calls[c].tool = "send_erc20_token"
        /\ calls[c].estimate = "other_error"
        /\ calls[c].tx.gas = FallbackGas
        /\ calls[c].tx.gasPrice = 2

\* The positions of a send call in the order the code reaches them.
StepsInOrder(c) ==
    LET call == calls[c]
        validated == /\ call.connected = "live"
                     /\ is_address(call.to)
                     /\ ~AmountNotPositive(call.amount)
    IN /\ call.result.kind = "NotWhitelisted" => validated /\ call.nonce = -1
       /\ call.result.kind \in {"NotConnected", "InvalidAddress", "AmountNotPositive"}
            => call.nonce = -1
       /\ call.nonce # -1 => validated /\ InAllowList(c)
       /\ call.gasPrice # 0 => call.nonce # -1
       /\ call.tx # NoTx => call.nonce # -1 /\ call.gasPrice # 0
       /\ call.sent # "no" => call.tx # NoTx /\ call.pc = "done"

\* C33: a send call validates its input, then checks the allow-list, then
\* reads the nonce, then signs and broadcasts; the step that calls
\* send_raw_transaction ends the call, so no call submits twice.
C33_StepsInOrderSubmitOnce ==
    /\ [](\A c \in CallIds : calls[c].tool \in ToolNames => StepsInOrder(c))
    /\ [][\A c \in CallIds :
            /\ calls[c].pc = "done" =>
                 /\ calls'[c].pc = "done"
                 /\ calls'[c].sent = calls[c].sent
                 /\ calls'[c].tx = calls[c].tx
            /\ calls'[c].sent # calls[c].sent =>
                 /\ calls[c].pc \in {"priced", "built"}
                 /\ calls[c].sent = "no"]_vars

\* A native transfer went through every step and its transaction is pooled.
C33_Witness ==
    \E c \in CallIds :
        /\ calls[c].tool = "send_eth"
        /\ calls[c].sent = "accepted"
        /\ calls[c].nonce = 0
        /\ calls[c].tx \in mempool
        /\ InAllowList(c)

\* The allow-list parsed from the entries holds the checksum form of each
\* well-formed entry and nothing else.
ExactlyWellFormed(whitelist, entries) ==
    /\ \A i \in 1..Len(entries) :
         is_address(entries[i]) => to_checksum_address(entries[i]) \in whitelist
    /\ \A a \in whitelist :
         /\ a.sp = "checksum"
         /\ \E i \in 1..Len(entries) :
              is_address(entries[i]) /\ entries[i].acct = a.acct
    /\ entries = <<>> => whitelist = {}

AllowListsExact ==
    /\ ExactlyWellFormed(ETH_WHITELIST, env.ETH_WHITELIST)
    /\ ExactlyWellFormed(ERC20_WHITELIST, env.ERC20_WHITELIST)

\* C34 as claimed: the allow-lists hold exactly the checksum forms of the
\* well-formed entries, and with an empty value every transfer of the kind
\* returns the authorization error.
C34_Original ==
    /\ AllowListsExact
    /\ \A c \in CallIds :
         (ToolReturned(c) /\ calls[c].tool \in ToolNames /\ EnvListOf(c) = <<>>)
            => calls[c].result = ResultNaming("NotWhitelisted", calls[c].to)

\* C34 as amended: the allow-lists hold exactly the checksum forms of the
\* well-formed entries; with an empty value no transfer of the kind reads a
\* nonce or is submitted, and one that passes the input checks with a usable
\* context returns the authorization error.
C34_Amended ==
    /\ AllowListsExact
    /\ \A c \in CallIds :
         (calls[c].tool \in ToolNames /\ EnvListOf(c) = <<>>) =>
           /\ WhitelistOf(c) = {}
           /\ ~NonceRead(c)
           /\ ~Submitted(c)
           /\ ( /\ ToolReturned(c)
                /\ is_address(calls[c].to)
                /\ calls[c].amount > 0
                /\ calls[c].result.kind \notin ContextErrors )
              => calls[c].result = ResultNaming("NotWhitelisted", calls[c].to)

\* A list with a malformed entry beside a well-formed one was parsed, and a
\* well-formed transfer of the other kind, whose list is empty, was turned
\* away.
C34_Witness ==
    /\ env.ETH_WHITELIST = <<Addr("alice", "upper"), Garbage>>
    /\ ETH_WHITELIST = {Addr("alice", "checksum")}
    /\ env.ERC20_WHITELIST = <<>>
    /\ \E c \in CallIds :
         /\ calls[c].tool = "send_erc20_token"
         /\ calls[c].amount > 0
         /\ calls[c].result = ResultNaming("NotWhitelisted", calls[c].to)

\* C35: a started server either yielded a context made on a reachable
\* endpoint, with the essential values present and the sender address
\* derived, or raised and yielded nothing; every tool call is served by a
\* process whose lifespan yielded such a context, and none finds the sender
\* address missing.
C35_OnlyFullContextServed ==
    /\ \A r \in Runs :
         /\ runs[r].startup = "yielded" =>
              /\ runs[r].reachable
              /\ essential_env
              /\ sender_address # ""
              /\ TOKEN_CONTRACT_ADDRESS # NoAddr => token_contract_instance # NoAddr
         /\ runs[r].pc = "running" => runs[r].startup = "yielded"
         /\ runs[r].startup # "yielded" => CallsOf(r) = {}
    /\ \A c \in CallIds :
         /\ runs[calls[c].run].startup = "yielded"
         /\ runs[calls[c].run].reachable
         /\ calls[c].result.kind # "NoSender"

\* A tool was served a context without a token contract: the connection and
\* the sender address are there, the optional token is not.
C35_Witness ==
    \E c \in CallIds :
        /\ runs[calls[c].run].startup = "yielded"
        /\ TOKEN_CONTRACT_ADDRESS = NoAddr
        /\ calls[c].pc = "done"
        /\ calls[c].result.kind = "NoTokenContract"

\* C36: once the node answered the balanceOf query for the address asked
\* about, get_erc20_token_balance returns that balance, whatever becomes of
\* the further query for the sender's own balance.
C36_SenderQueryNeverReplacesBalance ==
    \A c \in CallIds :
        ( /\ calls[c].tool = "get_erc20_token_balance"
          /\ calls[c].pc = "done"
          /\ calls[c].human # NoFloat )
        => calls[c].result = ResultNaming("TokenBalance",
                                          to_checksum_address(calls[c].to))

\* A hash starts at position p of the text: 64 hexadecimal digits, with or
\* without 0x in front, standing as a word of their own.
HashAt(text, p) == MatchLen(text, p) > 0

\* C37: the displayed form of a text without a hash is the text itself; that
\* of a text with a hash is the fixed success block with the first hash of
\* the text; and normalising the displayed form again changes nothing.
C37_NormalizeTxText ==
    \A r \in Runs :
        runs[r].shown # NoText =>
          LET text == runs[r].text
              shown == runs[r].shown
          IN /\ (\A p \in 1..Len(text) : ~HashAt(text, p)) => shown = text
             /\ \A p \in 1..Len(text) :
                  (HashAt(text, p) /\ \A q \in 1..(p - 1) : ~HashAt(text, q))
                     => /\ shown = normalized(
                                     SubSeq(text, p, p + MatchLen(text, p) - 1))
                        /\ shown # text
             /\ _normalize_tx_text(shown) = shown

\* A text with two hashes, the second with the 0x prefix, was displayed as
\* the block for the first.
C37_Witness ==
    \E r \in Runs :
        /\ runs[r].shown = normalized(HexRunOf("c", HashLen))
        /\ \E p \in 1..Len(runs[r].text), q \in 1..Len(runs[r].text) :
             /\ p < q
             /\ MatchLen(runs[r].text, p) = HashLen
             /\ MatchLen(runs[r].text, q) = HashLen + 2

====
